---- MODULE Spec2Model ----
(***************************************************************************)
(* Hotel rate breakdown calculator (streamlit_app.py).                     *)
(*                                                                         *)
(* Money is held in whole cents (a Decimal quantized to 0.01).  A value    *)
(* typed into a number input is held in mills (thousandths of a dollar),   *)
(* so that the quantize(0.01, ROUND_HALF_UP) applied to every input is a   *)
(* real rounding step.  Tax rates are held in units of 10^-5.              *)
(*                                                                         *)
(* The Decimal context precision is 10 significant digits.  For every      *)
(* amount within MaxCents all products and sums have fewer than 10         *)
(* significant digits and the quotient total / 1.13 is never within        *)
(* 10^-7 of a half cent (its fractional cent is a multiple of 1/113), so   *)
(* the context rounding never changes a value that is quantized next.      *)
(*                                                                         *)
(* A float returned by the program carries a two-decimal Decimal; it is    *)
(* represented by the number of cents it denotes.                          *)
(***************************************************************************)
EXTENDS Integers, Sequences, FiniteSets, TLC

\* Largest amount (in cents) entered in either number input.
MaxCents == 12000
\* Inputs below this many mills are also entered at sub-cent resolution.
MaxFineMills == 30
\* Largest base (in cents) whose total is compared with every lower base.
MaxMonoBase == 2400

\* Tax rates, in units of 10^-5 (0.06875, 0.01125, 0.05).
STATE_TAX_RATE == 6875
CITY_TAX_RATE == 1125
LODGING_TAX_RATE == 5000
\* The unit of the rates: 1 == RateScale * 10^-5.
RateScale == 100000
\* Mills per cent.
MillsPerCent == 10

\* range(0, 21): the last cents_offset of the narrow search.
NarrowLast == 20
\* range(-300, 301): the first and last offset_cents of the fallback scan.
FallbackFirst == -300
FallbackLast == 300

Abs(x) == IF x < 0 THEN -x ELSE x

\* n/d rounded to an integer, ROUND_HALF_UP: nearest, ties away from zero.
RoundHalfUpNat(n, d) ==
    LET q == n \div d
        r == n % d
    IN  IF 2 * r >= d THEN q + 1 ELSE q

RoundHalfUp(n, d) ==
    IF n >= 0 THEN RoundHalfUpNat(n, d) ELSE -RoundHalfUpNat(-n, d)

\* Mutant: the state tax rounded to the nearest cent instead of upwards.
RoundUpAsHalfUp(n, d) == RoundHalfUp(n, d)

\* n/d rounded to an integer, ROUND_UP: away from zero.
RoundUp(n, d) ==
    IF n >= 0 THEN (n + d - 1) \div d ELSE -((-n + d - 1) \div d)

\* Decimal(str(x)).quantize(Decimal("0.01"), ROUND_HALF_UP): mills to cents.
Quantize(mills) == RoundHalfUp(mills, MillsPerCent)

\* float(candidate) handed to compute_breakdown: cents to an input value.
ToInput(cents) == cents * MillsPerCent

\* The three tax amounts of a base given in cents.
StateTax(base_dec) == RoundUp(base_dec * STATE_TAX_RATE, RateScale)
CityTax(base_dec) == RoundHalfUp(base_dec * CITY_TAX_RATE, RateScale)
LodgingTax(base_dec) == RoundHalfUp(base_dec * LODGING_TAX_RATE, RateScale)

\* Mutant: the city tax is left out of the total.
compute_breakdown_nocity(base) ==
    LET base_dec == Quantize(base)
    IN  << base_dec, StateTax(base_dec), CityTax(base_dec), LodgingTax(base_dec),
           base_dec + StateTax(base_dec) + LodgingTax(base_dec) >>

\* Mutant: the taxes are taken off the base instead of added to it.
compute_breakdown_net(base) ==
    LET base_dec == Quantize(base)
    IN  << base_dec, StateTax(base_dec), CityTax(base_dec), LodgingTax(base_dec),
           base_dec - StateTax(base_dec) - CityTax(base_dec) - LodgingTax(base_dec) >>

\* compute_breakdown(base): (base, state_tax, city_tax, lodging_tax, total).
compute_breakdown(base) ==
    LET base_dec == Quantize(base)
        state_tax == StateTax(base_dec)
        city_tax == CityTax(base_dec)
        lodging_tax == LodgingTax(base_dec)
        total == base_dec + state_tax + city_tax + lodging_tax
    IN  << base_dec, state_tax, city_tax, lodging_tax, total >>

\* 1 + STATE_TAX_RATE + CITY_TAX_RATE + LODGING_TAX_RATE, in units of 10^-5.
CombinedRate == RateScale + STATE_TAX_RATE + CITY_TAX_RATE + LODGING_TAX_RATE

\* naive_base: total / 1.13 quantized to the cent.
NaiveBase(total_dec) == RoundHalfUp(total_dec * RateScale, CombinedRate)

\* residual_state of a candidate: what is left of the total for the state tax.
ResidualState(total_dec, candidate_base) ==
    total_dec - candidate_base - CityTax(candidate_base) - LodgingTax(candidate_base)

\* Mutant: the predicted state tax is returned instead of the residual.
CandidateTuplePredicted(total_dec, candidate_base) ==
    LET predicted_state == StateTax(candidate_base)
        residual_state == ResidualState(total_dec, candidate_base)
    IN  << candidate_base, predicted_state, CityTax(candidate_base),
           LodgingTax(candidate_base), total_dec, residual_state - predicted_state >>

\* The tuple appended to candidates:
\* (candidate_base, residual_state, city_tax, lodging_tax, total_dec, diff).
CandidateTuple(total_dec, candidate_base) ==
    LET city_tax == CityTax(candidate_base)
        lodging_tax == LodgingTax(candidate_base)
        predicted_state == StateTax(candidate_base)
        residual_state == ResidualState(total_dec, candidate_base)
        diff == residual_state - predicted_state
    IN  << candidate_base, residual_state, city_tax, lodging_tax, total_dec, diff >>

\* Mutant: a deviation of two cents is still accepted.
AcceptsTwoCents(total_dec, candidate_base) ==
    /\ candidate_base > 0
    /\ ResidualState(total_dec, candidate_base) >= 0
    /\ Abs(ResidualState(total_dec, candidate_base) - StateTax(candidate_base)) <= 2

\* Mutant: a zero base is not skipped.
AcceptsZeroBase(total_dec, candidate_base) ==
    /\ candidate_base >= 0
    /\ ResidualState(total_dec, candidate_base) >= 0
    /\ Abs(ResidualState(total_dec, candidate_base) - StateTax(candidate_base)) <= 1

\* The body of the narrow loop up to the append: both continue-s and the
\* acceptance test.
Accepts(total_dec, candidate_base) ==
    IF candidate_base <= 0 THEN FALSE
    ELSE IF ResidualState(total_dec, candidate_base) < 0 THEN FALSE
    ELSE Abs(ResidualState(total_dec, candidate_base) - StateTax(candidate_base)) <= 1

\* The narrow loop, from cents_offset on: the candidates in append order.
RECURSIVE NarrowSearch(_, _, _)
NarrowSearch(total_dec, naive_base, cents_offset) ==
    IF cents_offset > NarrowLast THEN << >>
    ELSE LET candidate_base == naive_base - cents_offset
             rest == NarrowSearch(total_dec, naive_base, cents_offset + 1)
         IN  IF Accepts(total_dec, candidate_base)
             THEN << CandidateTuple(total_dec, candidate_base) >> \o rest
             ELSE rest

\* The first component of the sort key: -(x[5] > 0).
DiffKey(x) == IF x[6] > 0 THEN -1 ELSE 0

\* Mutant: the larger base is preferred.
KeyLessLargerBase(x, y) ==
    \/ DiffKey(x) < DiffKey(y)
    \/ DiffKey(x) = DiffKey(y) /\ x[1] > y[1]

\* Order of the sort keys (-(x[5] > 0), x[0]).
KeyLess(x, y) ==
    \/ DiffKey(x) < DiffKey(y)
    \/ DiffKey(x) = DiffKey(y) /\ x[1] < y[1]

\* Insert x into the sorted sequence s, after every element not greater.
RECURSIVE Insert(_, _)
Insert(x, s) ==
    IF s = << >> THEN << x >>
    ELSE IF KeyLess(x, Head(s)) THEN << x >> \o s
    ELSE << Head(s) >> \o Insert(x, Tail(s))

\* candidates.sort(key=...): a stable sort.
RECURSIVE SortCandidates(_)
SortCandidates(s) ==
    IF s = << >> THEN << >>
    ELSE Insert(s[Len(s)], SortCandidates(SubSeq(s, 1, Len(s) - 1)))

\* abs(total_f - float(total_dec)) < 0.005, both floats of whole cents.
WithinHalfCent(total_f, total_dec) ==
    Abs(total_f - total_dec) * MillsPerCent < MillsPerCent \div 2

\* candidate of the fallback scan at offset_cents: approx_base plus the offset,
\* quantized to the cent.
FallbackCandidate(total_dec, offset_cents) ==
    RoundHalfUp(total_dec * RateScale + offset_cents * CombinedRate, CombinedRate)

\* The offsets at which the fallback scan would return.
FallbackHits(total_dec) ==
    { offset_cents \in FallbackFirst..FallbackLast :
        /\ FallbackCandidate(total_dec, offset_cents) > 0
        /\ WithinHalfCent(
               compute_breakdown(ToInput(FallbackCandidate(total_dec, offset_cents)))[5],
               total_dec) }

\* The fallback scan: the breakdown at the first offset that hits; << >> is
\* None.
FallbackScan(total_dec) ==
    LET hits == FallbackHits(total_dec)
        first == CHOOSE o \in hits : \A p \in hits : o <= p
    IN  IF hits = {} THEN << >>
        ELSE compute_breakdown(ToInput(FallbackCandidate(total_dec, first)))

\* find_base_from_total(target_total): a 5-tuple, or << >> for None.
find_base_from_total(target_total) ==
    LET total_dec == Quantize(target_total)
        naive_base == NaiveBase(total_dec)
        candidates == NarrowSearch(total_dec, naive_base, 0)
        chosen == SortCandidates(candidates)[1]
    IN  IF candidates # << >>
        THEN << chosen[1], chosen[2], chosen[3], chosen[4], chosen[5] >>
        ELSE FallbackScan(total_dec)

(***************************************************************************)
(* The application: a calculation method, the value of its number input,   *)
(* and the result shown once the button is pressed.                        *)
(***************************************************************************)
VARIABLES method, input, pc, result

vars == << method, input, pc, result >>

Methods == {"Forward", "Reverse"}

\* The values entered: every whole cent up to MaxCents, and every mill up to
\* MaxFineMills.
Inputs == {ToInput(c) : c \in 0..MaxCents} \cup (0..MaxFineMills)

Init ==
    /\ method \in Methods
    /\ input \in Inputs
    /\ pc = "input"
    /\ result = << >>

\* "Compute Total": the forward calculation of the base entered.
ComputeTotal ==
    /\ method = "Forward"
    /\ pc = "input"
    /\ result' = compute_breakdown(input)
    /\ pc' = "shown"
    /\ UNCHANGED << method, input >>

\* "Compute Base": the reverse calculation of the total entered.
ComputeBase ==
    /\ method = "Reverse"
    /\ pc = "input"
    /\ result' = find_base_from_total(input)
    /\ pc' = "shown"
    /\ UNCHANGED << method, input >>

Next == ComputeTotal \/ ComputeBase

Spec == Init /\ [][Next]_vars

(***************************************************************************)
(* The states the properties speak about.                                  *)
(***************************************************************************)
\* The input is a whole number of cents.
WholeCent == input % MillsPerCent = 0

\* The input in cents, when it is a whole number of cents.
InputCents == input \div MillsPerCent

\* The forward result of a whole-cent base is shown.
ForwardShown == method = "Forward" /\ pc = "shown" /\ WholeCent

\* The reverse result (or its absence) for a whole-cent total is shown.
ReverseShown == method = "Reverse" /\ pc = "shown" /\ WholeCent

\* The reverse calculation applied to the total of the forward result shown.
Recovered == find_base_from_total(ToInput(result[5]))

\* The totals some positive whole-cent base produces.  A total is never below
\* its base, so a total within MaxCents has all its bases within MaxCents.
ReachableTotals == { compute_breakdown(ToInput(b))[5] : b \in 1..MaxCents }

\* C1: for every positive whole-cent base b with forward total T, the reverse
\* calculation of T returns a result and the forward total of the returned
\* base is T again.
C1_RoundTripReverifies ==
    (ForwardShown /\ InputCents > 0) =>
        /\ Recovered # << >>
        /\ compute_breakdown(ToInput(Recovered[1]))[5] = result[5]

\* C2: for every positive whole-cent base b with forward total T, the reverse
\* calculation of T returns a result whose base is within one cent of b.
C2_RoundTripWithinOneCent ==
    (ForwardShown /\ InputCents > 0) =>
        /\ Recovered # << >>
        /\ Abs(Recovered[1] - InputCents) <= 1

\* A round trip that does not give back the base it started from.
C2_Witness ==
    /\ ForwardShown
    /\ InputCents > 0
    /\ Recovered # << >>
    /\ Recovered[1] = InputCents - 1

\* C3: a whole-cent total that no positive whole-cent base produces has no
\* reverse result.
C3_NoFalsePositive ==
    (ReverseShown /\ InputCents \notin ReachableTotals) => result = << >>

\* C4: the reverse calculation of the total 0.00 returns the all-zero
\* breakdown.
C4_ZeroTargetBreakdown ==
    (ReverseShown /\ InputCents = 0) => result = << 0, 0, 0, 0, 0 >>

\* C4 (amended): the reverse calculation of a total that quantizes to 0.00
\* returns None.
C4_ZeroTargetNone ==
    (method = "Reverse" /\ pc = "shown" /\ Quantize(input) = 0) => result = << >>

\* The reverse calculation of 0.00 has been carried out.
C4_Witness ==
    /\ ReverseShown
    /\ input = 0
    /\ result = << >>

C6_ForwardSum ==
    ForwardShown =>
        /\ result[5] = result[1] + result[2] + result[3] + result[4]
        /\ result[1] = InputCents
        /\ (InputCents = 0 => result[5] = 0)

\* A forward result in which every tax is positive.
C6_Witness ==
    /\ ForwardShown
    /\ result[2] > 0
    /\ result[3] > 0
    /\ result[4] > 0

\* C7: the state tax is the smallest whole-cent amount not below 6.875% of
\* the base; the city and lodging taxes are 1.125% and 5% of the base rounded
\* to the nearest cent, half cents upwards; base 100.00 gives 6.88, 1.13,
\* 5.00 and the total 113.01.
C7_ComponentRounding ==
    ForwardShown =>
        LET raw_state == InputCents * STATE_TAX_RATE
            raw_city == InputCents * CITY_TAX_RATE
            raw_lodging == InputCents * LODGING_TAX_RATE
        IN  /\ result[2] * RateScale >= raw_state
            /\ (result[2] - 1) * RateScale < raw_state
            /\ 2 * (result[3] * RateScale - raw_city) <= RateScale
            /\ 2 * (raw_city - result[3] * RateScale) < RateScale
            /\ 2 * (result[4] * RateScale - raw_lodging) <= RateScale
            /\ 2 * (raw_lodging - result[4] * RateScale) < RateScale
            /\ (InputCents = 10000 => result = << 10000, 688, 113, 500, 11301 >>)

\* The forward result of base 100.00.
C7_Witness ==
    /\ ForwardShown
    /\ InputCents = 10000
    /\ result = << 10000, 688, 113, 500, 11301 >>

\* C8: the forward total of a base is not below the forward total of any
\* lower base.
C8_Monotone ==
    (ForwardShown /\ InputCents <= MaxMonoBase) =>
        \A b1 \in 0..InputCents :
            compute_breakdown(ToInput(b1))[5] <= result[5]

\* A forward result whose total exceeds that of the base one cent lower by
\* more than one cent: both a tax and the base moved.
C8_Witness ==
    /\ ForwardShown
    /\ InputCents > 0
    /\ InputCents <= MaxMonoBase
    /\ result[5] >= compute_breakdown(ToInput(InputCents - 1))[5] + 2

\* The bases the narrow search accepts for a total: positive, at most 20
\* cents below the naive base, with a residual state tax that is not negative
\* and within one cent of the rounded-up state tax.
AcceptedBases(total_dec) ==
    { b \in (NaiveBase(total_dec) - NarrowLast)..NaiveBase(total_dec) :
        /\ b > 0
        /\ total_dec - b - CityTax(b) - LodgingTax(b) >= 0
        /\ Abs(total_dec - b - CityTax(b) - LodgingTax(b) - StateTax(b)) <= 1 }

\* The accepted bases whose residual state tax exceeds the rounded-up one.
RaisedBases(total_dec) ==
    { b \in AcceptedBases(total_dec) :
        total_dec - b - CityTax(b) - LodgingTax(b) > StateTax(b) }

\* The least element of a non-empty set of integers.
Least(S) == CHOOSE x \in S : \A y \in S : x <= y

\* C9: when the narrow search accepts a candidate, the base returned is the
\* smallest accepted base whose residual state tax exceeds its rounded-up
\* state tax, or the smallest accepted base when there is none; no accepted
\* base is lower than the one returned.
C9_TieBreak ==
    (ReverseShown /\ AcceptedBases(InputCents) # {}) =>
        /\ result # << >>
        /\ result[1] \in AcceptedBases(InputCents)
        /\ result[1] = IF RaisedBases(InputCents) # {}
                       THEN Least(RaisedBases(InputCents))
                       ELSE Least(AcceptedBases(InputCents))
        /\ \A b \in AcceptedBases(InputCents) : b >= result[1]

\* A reverse result chosen among three accepted bases, one of them raised.
C9_Witness ==
    /\ ReverseShown
    /\ Cardinality(AcceptedBases(InputCents)) = 3
    /\ RaisedBases(InputCents) # {}
    /\ result # << >>
    /\ result[1] = Least(RaisedBases(InputCents))

\* C10: a reverse result has a positive base, no negative tax, the target as
\* its total, and a total that is the sum of the base and the three taxes.
C10_CompleteBreakdown ==
    (ReverseShown /\ result # << >>) =>
        /\ Len(result) = 5
        /\ result[1] > 0
        /\ result[2] >= 0
        /\ result[3] >= 0
        /\ result[4] >= 0
        /\ result[5] = InputCents
        /\ result[5] = result[1] + result[2] + result[3] + result[4]

\* A reverse result whose state tax is not the rounded-up one.
C10_Witness ==
    /\ ReverseShown
    /\ result # << >>
    /\ result[2] # StateTax(result[1])
    /\ result[3] > 0

====
